---------------------------- MODULE Spec2Model ----------------------------
(***************************************************************************)
(* Model of the Google Workspace OAuth proxy (src/server.js).              *)
(*                                                                         *)
(* The server is a single Node.js process.  A handler runs synchronously   *)
(* up to its next `await`; there it is suspended until the upstream        *)
(* promise settles.  Every action below is one such synchronous segment.   *)
(*                                                                         *)
(* Text is modelled as a sequence of syllables, romanised:                 *)
(*   가족 = <<"ga","jok">>   업무 = <<"eop","mu">>   개인 = <<"gae","in">>     *)
(*   자기계발 = <<"ja","gi","gye","bal">>   사업 = <<"sa","eop">>  ...        *)
(***************************************************************************)
EXTENDS Integers, Sequences, FiniteSets, Bags, TLC

VARIABLES
    storedTokens,   \* `let storedTokens` : Null or a credential bundle
    credentials,    \* oauth2Client.credentials : what upstream calls are signed with
    pending,        \* bag of handlers suspended on an await
    out,            \* the last thing the process emitted: an upstream call or a response
    now,            \* wall clock
    exchanged,      \* history: some code exchange has succeeded
    settled,        \* history: how the promise awaited by the last step settled
    text,           \* argument of a direct call of inferType
    inferred        \* its result

vars == <<storedTokens, credentials, pending, out, now, exchanged, settled, text, inferred>>

-----------------------------------------------------------------------------
(* Bounds of the model *)

MaxReqs == 2        \* handlers suspended at the same time
MaxMsgs == 2        \* messages a Gmail list call returns
MaxNow == 2         \* clock ticks
Lifetime == 1       \* ticks an access token lives
MaxLen == 4         \* syllables of a text passed to inferType
MaxOverrides == 2   \* entries of a reminders list

-----------------------------------------------------------------------------
(* JavaScript values *)

Undefined == [k |-> "undefined"]
Null == [k |-> "null"]
Str(s) == [k |-> "string", v |-> s]
Arr(a) == [k |-> "array", v |-> a]
Num(n) == [k |-> "number", v |-> n]
Fn(name) == [k |-> "function", v |-> name]
Obj(name) == [k |-> "object", v |-> name]

\* ToBoolean
Truthy(x) ==
    CASE x.k = "undefined" -> FALSE
      [] x.k = "null" -> FALSE
      [] x.k = "string" -> x.v # <<>>
      [] x.k = "number" -> x.v # 0
      [] OTHER -> TRUE

\* String.prototype.includes, scanning the start positions left to right
RECURSIVE IncludesFrom(_, _, _)
IncludesFrom(s, p, i) ==
    IF i + Len(p) - 1 > Len(s) THEN FALSE
    ELSE IF SubSeq(s, i, i + Len(p) - 1) = p THEN TRUE
    ELSE IncludesFrom(s, p, i + 1)

Includes(s, p) == IncludesFrom(s, p, 1)

-----------------------------------------------------------------------------
(* Static configuration *)

jagigyebal == <<"ja", "gi", "gye", "bal">>
gaein == <<"gae", "in">>
eopmu == <<"eop", "mu">>
gajok == <<"ga", "jok">>

\* own properties, in declaration order
EVENT_COLOR_MAP ==
    << [key |-> jagigyebal, value |-> Str(<<"2">>)],
       [key |-> gaein,      value |-> Str(<<"1">>)],
       [key |-> eopmu,      value |-> Str(<<"6">>)],
       [key |-> gajok,      value |-> Str(<<"5">>)] >>

\* an object literal inherits the members of Object.prototype
ObjectPrototype ==
    << [key |-> <<"__proto__">>,   value |-> Obj("Object.prototype")],
       [key |-> <<"constructor">>, value |-> Fn("Object")],
       [key |-> <<"toString">>,    value |-> Fn("toString")] >>

\* the rules keyed in the order of EVENT_COLOR_MAP
PATTERN_RULES_ColorOrder ==
    << [key |-> jagigyebal, value |->
          << <<"ja","gi","gye","bal">>, <<"gong","bu">>, <<"dok","seo">>,
             <<"un","dong">>, <<"hak","seup">>, <<"ja","gi","gye","bal","ro">> >>],
       [key |-> gaein, value |->
          << <<"gae","in","eu","ro">>, <<"gae","in","e">>, <<"gae","in","jeok">>,
             <<"gae","in">> >> ],
       [key |-> eopmu, value |->
          << <<"eop","mu","ro">>, <<"eop","mu","e">>, <<"eop","mu">>,
             <<"hoe","ui">>, <<"sa","eop">>,
             <<"eop","mu","ro"," ","deung","rok">> >>],
       [key |-> gajok, value |->
          << <<"ga","jok","eu","ro">>, <<"ga","jok","e">>, <<"ga","jok","gwa">>,
             <<"ga","jok">> >>] >>

PATTERN_RULES ==
    << [key |-> gajok, value |->
          << <<"ga","jok","eu","ro">>, <<"ga","jok","e">>, <<"ga","jok","gwa">>,
             <<"ga","jok">> >>],
       [key |-> eopmu, value |->
          << <<"eop","mu","ro">>, <<"eop","mu","e">>, <<"eop","mu">>,
             <<"hoe","ui">>, <<"sa","eop">>,
             <<"eop","mu","ro"," ","deung","rok">> >>],
       [key |-> jagigyebal, value |->
          << <<"ja","gi","gye","bal">>, <<"gong","bu">>, <<"dok","seo">>,
             <<"un","dong">>, <<"hak","seup">>, <<"ja","gi","gye","bal","ro">> >>],
       [key |-> gaein, value |->
          << <<"gae","in","eu","ro">>, <<"gae","in","e">>, <<"gae","in","jeok">>,
             <<"gae","in">> >> ] >>

\* obj[key] for a string key: own properties first, then the prototype chain
RECURSIVE FindKey(_, _, _)
FindKey(entries, key, i) ==
    IF i > Len(entries) THEN Undefined
    ELSE IF entries[i].key = key THEN entries[i].value
    ELSE FindKey(entries, key, i + 1)

GetProp(entries, key) ==
    LET own == FindKey(entries, key, 1)
    IN  IF own # Undefined THEN own ELSE FindKey(ObjectPrototype, key, 1)

-----------------------------------------------------------------------------
(* inferType *)

RECURSIVE AnyPattern(_, _, _)
AnyPattern(summary, patterns, j) ==
    IF j > Len(patterns) THEN FALSE
    ELSE IF Includes(summary, patterns[j]) THEN TRUE
    ELSE AnyPattern(summary, patterns, j + 1)

RECURSIVE InferLoop(_, _, _)
InferLoop(rules, summary, i) ==
    IF i > Len(rules) THEN Null
    ELSE IF AnyPattern(summary, rules[i].value, 1) THEN Str(rules[i].key)
    ELSE InferLoop(rules, summary, i + 1)

inferType(summary) ==
    IF ~Truthy(summary) THEN Null
    ELSE InferLoop(PATTERN_RULES, summary.v, 1)

-----------------------------------------------------------------------------
(* Event enrichment: the payload handed to calendar.events.insert / update *)

TimeZone == "Asia/Seoul"

\* reminders.map(r => ({method: r.method || 'popup', minutes: r.minutes}))
MapOverrides(rs) ==
    [i \in 1..Len(rs) |->
        [method  |-> IF Truthy(rs[i].method) THEN rs[i].method ELSE Str(<<"popup">>),
         minutes |-> rs[i].minutes]]

\* POST /events: const inferredType = type || inferType(summary)
CreateType(body) ==
    IF Truthy(body.type) THEN body.type ELSE inferType(body.summary)

\* POST /events: the colorId property of the event, if it gets one
CreateColor(body) ==
    LET inferredType == CreateType(body)
    IN  IF Truthy(inferredType) /\ Truthy(GetProp(EVENT_COLOR_MAP, inferredType.v))
        THEN [colorId |-> GetProp(EVENT_COLOR_MAP, inferredType.v)]
        ELSE <<>>

\* POST /events replacing the calendar's default reminders by the overrides
CreateRemindersNoDefault(body) ==
    IF Truthy(body.reminders) /\ Len(body.reminders.v) > 0
    THEN [reminders |-> [useDefault |-> FALSE, overrides |-> MapOverrides(body.reminders.v)]]
    ELSE <<>>

\* POST /events: the reminders property of the event, if it gets one
CreateReminders(body) ==
    IF Truthy(body.reminders) /\ Len(body.reminders.v) > 0
    THEN [reminders |-> [useDefault |-> TRUE, overrides |-> MapOverrides(body.reminders.v)]]
    ELSE <<>>

CreateEvent(body) ==
    [summary     |-> body.summary,
     description |-> body.description,
     start       |-> [dateTime |-> body.start, timeZone |-> TimeZone],
     end         |-> [dateTime |-> body.end, timeZone |-> TimeZone]]
    @@ CreateColor(body) @@ CreateReminders(body)

\* PUT /events/:eventId: if (type !== undefined) { null -> null, mapped -> colour }
UpdateColor(body) ==
    IF body.type # Undefined
    THEN IF body.type = Null THEN [colorId |-> Null]
         ELSE IF Truthy(GetProp(EVENT_COLOR_MAP, body.type.v))
              THEN [colorId |-> GetProp(EVENT_COLOR_MAP, body.type.v)]
              ELSE <<>>
    ELSE <<>>

\* PUT /events/:eventId testing `if (reminders)` as the create path does
UpdateRemindersCollapsed(body) ==
    IF Truthy(body.reminders)
    THEN IF Len(body.reminders.v) = 0
         THEN [reminders |-> [useDefault |-> TRUE]]
         ELSE [reminders |-> [useDefault |-> TRUE,
                              overrides |-> MapOverrides(body.reminders.v)]]
    ELSE <<>>

\* PUT /events/:eventId: if (reminders !== undefined) { ... }
UpdateReminders(body) ==
    IF body.reminders # Undefined
    THEN IF body.reminders = Null \/ Len(body.reminders.v) = 0
         THEN [reminders |-> [useDefault |-> TRUE]]
         ELSE [reminders |-> [useDefault |-> TRUE,
                              overrides |-> MapOverrides(body.reminders.v)]]
    ELSE <<>>

\* Object.keys(event).forEach(key => event[key] === undefined && delete event[key])
DeleteUndefined(event) ==
    [key \in {f \in DOMAIN event : event[f] # Undefined} |-> event[key]]

UpdateEvent(body) ==
    DeleteUndefined(
        [summary     |-> body.summary,
         description |-> body.description,
         start       |-> IF Truthy(body.start)
                         THEN [dateTime |-> body.start, timeZone |-> TimeZone]
                         ELSE Undefined,
         end         |-> IF Truthy(body.end)
                         THEN [dateTime |-> body.end, timeZone |-> TimeZone]
                         ELSE Undefined]
        @@ UpdateColor(body) @@ UpdateReminders(body))

-----------------------------------------------------------------------------
(* The server *)

\* tokens a successful oauth2Client.getToken resolves with at time t: the
\* identity provider may or may not include a refresh token
Grants(t) ==
    { Obj([access_token |-> "at1", refresh_token |-> "rt1", expiry_date |-> t + Lifetime]),
      Obj([access_token |-> "at2", expiry_date |-> t + Lifetime]) }

\* new google.auth.OAuth2(...) starts with credentials = {}
NoCredentials == Obj(<<>>)

ProtectedRoutes ==
    { "GET /events", "POST /events", "PUT /events/:eventId", "DELETE /events/:eventId",
      "GET /mail", "GET /mail/:messageId", "GET /mail/threads/:threadId",
      "GET /drive/files", "GET /drive/files/:fileId", "GET /docs/:documentId",
      "GET /sheets/:spreadsheetId", "GET /sheets/:spreadsheetId/:sheetId" }

\* the message of each handler's catch block
ErrorMessage(route) ==
    CASE route = "GET /callback" -> "Failed to authenticate"
      [] route = "GET /events" -> "Failed to fetch events"
      [] route = "POST /events" -> "Failed to create event"
      [] route = "PUT /events/:eventId" -> "Failed to update event"
      [] route = "DELETE /events/:eventId" -> "Failed to delete event"
      [] route = "GET /mail" -> "Failed to fetch emails"
      [] route = "GET /mail/:messageId" -> "Failed to fetch email"
      [] route = "GET /mail/threads/:threadId" -> "Failed to fetch thread"
      [] route = "GET /drive/files" -> "Failed to fetch files"
      [] route = "GET /drive/files/:fileId" -> "Failed to fetch file"
      [] route = "GET /docs/:documentId" -> "Failed to fetch document"
      [] route = "GET /sheets/:spreadsheetId" -> "Failed to fetch spreadsheet"
      [] route = "GET /sheets/:spreadsheetId/:sheetId" -> "Failed to fetch sheet data"

\* a response; `request` records the body a POST /events reply answers
Response(route, status, body, request) ==
    [ev |-> "response", route |-> route, status |-> status, body |-> body,
     request |-> request]

\* an upstream call: `auth` is the credentials the shared client holds when
\* the call is issued, `resource` the payload, `request` the body it came from
Call(route, api, auth, resource, request) ==
    [ev |-> "call", route |-> route, api |-> api, auth |-> auth,
     resource |-> resource, request |-> request]

\* a handler suspended at an await; `seen` records the bundle the slot held
\* when the request passed its check of the token slot
Suspended(route, at, left, seen) ==
    [route |-> route, at |-> at, left |-> left, seen |-> seen]

Accepting(cap) == BagCardinality(pending) < cap

\* res.status(...).json(...) and return: nothing else changes
Reply(route, status, body, request) ==
    /\ out' = Response(route, status, body, request)
    /\ settled' = "none"
    /\ UNCHANGED <<storedTokens, credentials, pending, now, exchanged, text, inferred>>

Unauthorized(route, request) ==
    Reply(route, 401, [error |-> "Not authenticated. Call /auth first."], request)

\* oauth2Client.setCredentials(storedTokens); ...; await <api>(...)
Forward(route, at, api, resource, request) ==
    /\ credentials' = storedTokens
    /\ pending' = pending (+) SetToBag({Suspended(route, at, 0, storedTokens)})
    /\ out' = Call(route, api, storedTokens, resource, request)
    /\ settled' = "none"
    /\ UNCHANGED <<storedTokens, now, exchanged, text, inferred>>

\* a handler that also turns an expired bundle away
PassthroughExpiryAware(route, api) ==
    IF ~Truthy(storedTokens) \/ storedTokens.v.expiry_date < now
    THEN Unauthorized(route, Undefined)
    ELSE Forward(route, "call", api, Undefined, Undefined)

\* a handler that checks the token slot and awaits one upstream call
Passthrough(route, api) ==
    IF ~Truthy(storedTokens) THEN Unauthorized(route, Undefined)
    ELSE Forward(route, "call", api, Undefined, Undefined)

Root ==
    Reply("GET /", 200,
          [status |-> "OK", service |-> "Google Workspace OAuth", version |-> "2.0.0",
           authenticated |-> Truthy(storedTokens)], Undefined)

Auth == Reply("GET /auth", 302, [location |-> "authUrl"], Undefined)

Status ==
    Reply("GET /status", 200,
          [authenticated |-> Truthy(storedTokens),
           tokenExpiry |-> IF Truthy(storedTokens) /\ storedTokens.v.expiry_date # 0
                           THEN Num(storedTokens.v.expiry_date) ELSE Null], Undefined)

Callback(code) ==
    IF ~Truthy(code)
    THEN Reply("GET /callback", 400, [error |-> "No authorization code received"],
               Undefined)
    ELSE /\ pending' = pending (+) SetToBag({Suspended("GET /callback", "getToken", 0, Undefined)})
         /\ out' = Call("GET /callback", "oauth2Client.getToken", Undefined, Undefined, Undefined)
         /\ settled' = "none"
         /\ UNCHANGED <<storedTokens, credentials, now, exchanged, text, inferred>>

\* /callback merging the new tokens into the stored bundle
GetTokenResolvesMerging(p, tokens) ==
    /\ p.at = "getToken"
    /\ credentials' = tokens
    /\ storedTokens' = IF Truthy(storedTokens) THEN Obj(tokens.v @@ storedTokens.v) ELSE tokens
    /\ pending' = pending (-) SetToBag({p})
    /\ out' = Response(p.route, 200,
                       [success |-> TRUE, expiresAt |-> tokens.v.expiry_date,
                        granted |-> tokens, replaced |-> storedTokens], Undefined)
    /\ exchanged' = TRUE
    /\ settled' = "resolved"
    /\ UNCHANGED <<now, text, inferred>>

\* /callback storing the bundle without handing it to the shared client
GetTokenResolvesSlotOnly(p, tokens) ==
    /\ p.at = "getToken"
    /\ storedTokens' = tokens
    /\ pending' = pending (-) SetToBag({p})
    /\ out' = Response(p.route, 200,
                       [success |-> TRUE, expiresAt |-> tokens.v.expiry_date,
                        granted |-> tokens, replaced |-> storedTokens], Undefined)
    /\ exchanged' = TRUE
    /\ settled' = "resolved"
    /\ UNCHANGED <<credentials, now, text, inferred>>

\* the continuation of /callback after `await oauth2Client.getToken(code)`
GetTokenResolves(p, tokens) ==
    /\ p.at = "getToken"
    /\ credentials' = tokens
    /\ storedTokens' = tokens
    /\ pending' = pending (-) SetToBag({p})
    \* `granted` and `replaced` record the exchange: the bundle getToken
    \* resolved with and the bundle the slot held before
    /\ out' = Response(p.route, 200,
                       [success |-> TRUE, expiresAt |-> tokens.v.expiry_date,
                        granted |-> tokens, replaced |-> storedTokens], Undefined)
    /\ exchanged' = TRUE
    /\ settled' = "resolved"
    /\ UNCHANGED <<now, text, inferred>>

\* /callback dropping the stored bundle when the exchange fails
GetTokenRejectsClearing(p) ==
    /\ p.at = "getToken"
    /\ storedTokens' = Null
    /\ pending' = pending (-) SetToBag({p})
    /\ out' = Response(p.route, 500, [error |-> ErrorMessage(p.route)], Undefined)
    /\ settled' = "rejected"
    /\ UNCHANGED <<credentials, now, exchanged, text, inferred>>

GetTokenRejects(p) ==
    /\ p.at = "getToken"
    /\ pending' = pending (-) SetToBag({p})
    /\ out' = Response(p.route, 500, [error |-> ErrorMessage(p.route)], Undefined)
    /\ settled' = "rejected"
    /\ UNCHANGED <<storedTokens, credentials, now, exchanged, text, inferred>>

GetEvents == Passthrough("GET /events", "calendar.events.list")

\* POST /events validating summary and start only
PostEventsNoEndCheck(body) ==
    IF ~Truthy(storedTokens) THEN Unauthorized("POST /events", body)
    ELSE IF ~Truthy(body.summary) \/ ~Truthy(body.start)
    THEN Reply("POST /events", 400,
               [error |-> "Missing required fields: summary, start, end"], body)
    ELSE Forward("POST /events", "call", "calendar.events.insert", CreateEvent(body), body)

PostEvents(body) ==
    IF ~Truthy(storedTokens) THEN Unauthorized("POST /events", body)
    ELSE IF ~Truthy(body.summary) \/ ~Truthy(body.start) \/ ~Truthy(body.end)
    THEN Reply("POST /events", 400,
               [error |-> "Missing required fields: summary, start, end"], body)
    ELSE Forward("POST /events", "call", "calendar.events.insert", CreateEvent(body), body)

PutEvents(body) ==
    IF ~Truthy(storedTokens) THEN Unauthorized("PUT /events/:eventId", Undefined)
    ELSE Forward("PUT /events/:eventId", "call", "calendar.events.update",
                 UpdateEvent(body), body)

DeleteEvents == Passthrough("DELETE /events/:eventId", "calendar.events.delete")

Mail ==
    IF ~Truthy(storedTokens) THEN Unauthorized("GET /mail", Undefined)
    ELSE Forward("GET /mail", "list", "gmail.users.messages.list", Undefined, Undefined)

MailMessage == Passthrough("GET /mail/:messageId", "gmail.users.messages.get")

MailThread == Passthrough("GET /mail/threads/:threadId", "gmail.users.threads.get")

DriveFiles == Passthrough("GET /drive/files", "drive.files.list")

DriveFile == Passthrough("GET /drive/files/:fileId", "drive.files.get")

\* /docs without the check of the token slot
DocsNoGate == Forward("GET /docs/:documentId", "call", "docs.documents.get", Undefined, Undefined)

Docs == Passthrough("GET /docs/:documentId", "docs.documents.get")

Sheets == Passthrough("GET /sheets/:spreadsheetId", "sheets.spreadsheets.get")

SheetData == Passthrough("GET /sheets/:spreadsheetId/:sheetId", "sheets.spreadsheets.values.get")

\* the continuation of a handler whose single upstream call resolved
UpstreamResolves(p) ==
    /\ p.at = "call"
    /\ pending' = pending (-) SetToBag({p})
    /\ out' = Response(p.route, 200, [success |-> TRUE], Undefined)
    /\ settled' = "resolved"
    /\ UNCHANGED <<storedTokens, credentials, now, exchanged, text, inferred>>

\* a handler without a catch block: the rejection ends it with no response
UpstreamRejectsUncaught(p) ==
    /\ p.at \in {"call", "list", "get"}
    /\ pending' = pending (-) SetToBag({p})
    /\ settled' = "rejected"
    /\ UNCHANGED <<storedTokens, credentials, out, now, exchanged, text, inferred>>

\* the catch block of a handler whose awaited upstream call rejected
UpstreamRejects(p) ==
    /\ p.at \in {"call", "list", "get"}
    /\ pending' = pending (-) SetToBag({p})
    /\ out' = Response(p.route, 500, [error |-> ErrorMessage(p.route)], Undefined)
    /\ settled' = "rejected"
    /\ UNCHANGED <<storedTokens, credentials, now, exchanged, text, inferred>>

\* GET /mail: one step of `for (const message of messages) await ...get(...)`,
\* with `left` messages still to fetch after the one being issued
MailNext(p, left) ==
    /\ pending' = (pending (-) SetToBag({p})) (+) SetToBag({Suspended(p.route, "get", left, p.seen)})
    /\ out' = Call(p.route, "gmail.users.messages.get", credentials, Undefined, Undefined)
    /\ settled' = "resolved"
    /\ UNCHANGED <<storedTokens, credentials, now, exchanged, text, inferred>>

MailDone(p) ==
    /\ pending' = pending (-) SetToBag({p})
    /\ out' = Response(p.route, 200, [success |-> TRUE], Undefined)
    /\ settled' = "resolved"
    /\ UNCHANGED <<storedTokens, credentials, now, exchanged, text, inferred>>

\* the list call resolved with n messages
MailListResolves(p, n) ==
    /\ p.at = "list"
    /\ IF n = 0 THEN MailDone(p) ELSE MailNext(p, n - 1)

\* a per-message get call resolved
MailGetResolves(p) ==
    /\ p.at = "get"
    /\ IF p.left = 0 THEN MailDone(p) ELSE MailNext(p, p.left - 1)

Tick ==
    /\ now < MaxNow
    /\ now' = now + 1
    /\ UNCHANGED <<storedTokens, credentials, pending, out, exchanged, settled, text, inferred>>

\* a direct call of inferType(text)
InferCall ==
    /\ inferred = [k |-> "pending"]
    /\ inferred' = inferType(text)
    /\ UNCHANGED <<storedTokens, credentials, pending, out, now, exchanged, settled, text>>

-----------------------------------------------------------------------------
(* Inputs *)

Seqs(S, n) == UNION {[1..m -> S] : m \in 0..n}

Codes == {Undefined, Str(<<>>), Str(<<"code">>)}

T1 == Str(<<"2024-02-05T10:00:00+09:00">>)
T2 == Str(<<"2024-02-05T12:00:00+09:00">>)

\* 가족과 저녁 식사
FamilyDinner == Str(<<"ga", "jok", "gwa", " ", "jeo", "nyeok", " ", "sik", "sa">>)

Body(summary, start, end, description, type, reminders) ==
    [summary |-> summary, start |-> start, end |-> end,
     description |-> description, type |-> type, reminders |-> reminders]

\* request bodies of the concurrent specification
CoreCreateBodies ==
    { Body(FamilyDinner, T1, T2, Undefined, Undefined, Undefined),
      Body(FamilyDinner, Undefined, T2, Undefined, Undefined, Undefined) }

CoreUpdateBodies ==
    { Body(Undefined, Undefined, Undefined, Undefined, Null, Null) }

Summaries ==
    { Undefined, Str(<<>>), Str(<<"jeom", "sim">>), FamilyDinner,
      Str(<<"sa", "eop", " ", "ga", "jok">>),
      Str(<<"gae", "in", "jeok">>), Str(<<"gae", "in", " ", "un", "dong">>) }

Types ==
    { Undefined, Null, Str(<<>>), Str(jagigyebal), Str(gaein), Str(eopmu), Str(gajok),
      Str(<<"gi", "ta">>), Str(<<"__proto__">>) }

ReminderInputs ==
    { [method |-> Undefined, minutes |-> Num(10)],
      [method |-> Str(<<"popup">>), minutes |-> Num(60)],
      [method |-> Str(<<"email">>), minutes |-> Num(1440)] }

Reminders == {Undefined, Null} \cup {Arr(rs) : rs \in Seqs(ReminderInputs, MaxOverrides)}

\* bodies that pass validation, and bodies that lack a required field
CreateBodies ==
    { Body(s, T1, T2, Undefined, t, r) :
        s \in Summaries \ {Undefined, Str(<<>>)}, t \in Types, r \in Reminders }
    \cup
    { Body(s, a, b, Undefined, Undefined, Undefined) :
        s \in {Undefined, Str(<<>>), FamilyDinner},
        a \in {Undefined, Str(<<>>), T1}, b \in {Undefined, Str(<<>>), T2} }

UpdateBodies ==
    { Body(s, a, b, d, t, r) :
        s \in {Undefined, FamilyDinner}, a \in {Undefined, T1}, b \in {Undefined, T2},
        d \in {Undefined}, t \in Types, r \in Reminders }

Syllables == {"ga", "jok", "eop", "mu", "sa", "gae", "in", "gong", "bu", "x"}

Texts == {Undefined} \cup {Str(s) : s \in Seqs(Syllables, MaxLen)}

-----------------------------------------------------------------------------
(* Specifications *)

Init ==
    /\ storedTokens = Null
    /\ credentials = NoCredentials
    /\ pending = EmptyBag
    /\ out = [ev |-> "none"]
    /\ now = 0
    /\ exchanged = FALSE
    /\ settled = "none"
    /\ text = Undefined
    /\ inferred = Undefined

\* Concurrent requests, every route
Next ==
    \/ Root
    \/ Auth
    \/ Status
    \/ Accepting(MaxReqs) /\ \E code \in Codes : Callback(code)
    \/ Accepting(MaxReqs) /\ GetEvents
    \/ Accepting(MaxReqs) /\ \E body \in CoreCreateBodies : PostEvents(body)
    \/ Accepting(MaxReqs) /\ \E body \in CoreUpdateBodies : PutEvents(body)
    \/ Accepting(MaxReqs) /\ DeleteEvents
    \/ Accepting(MaxReqs) /\ Mail
    \/ Accepting(MaxReqs) /\ MailMessage
    \/ Accepting(MaxReqs) /\ MailThread
    \/ Accepting(MaxReqs) /\ DriveFiles
    \/ Accepting(MaxReqs) /\ DriveFile
    \/ Accepting(MaxReqs) /\ Docs
    \/ Accepting(MaxReqs) /\ Sheets
    \/ Accepting(MaxReqs) /\ SheetData
    \/ \E p \in BagToSet(pending) : \E tokens \in Grants(now) : GetTokenResolves(p, tokens)
    \/ \E p \in BagToSet(pending) : GetTokenRejects(p)
    \/ \E p \in BagToSet(pending) : UpstreamResolves(p)
    \/ \E p \in BagToSet(pending) : UpstreamRejects(p)
    \/ \E p \in BagToSet(pending) : \E n \in 0..MaxMsgs : MailListResolves(p, n)
    \/ \E p \in BagToSet(pending) : MailGetResolves(p)

Spec == Init /\ [][Next]_vars

\* One request at a time while the clock runs
NextClock ==
    \/ Tick
    \/ Root
    \/ Status
    \/ Accepting(1) /\ \E code \in Codes : Callback(code)
    \/ Accepting(1) /\ GetEvents
    \/ Accepting(1) /\ Mail
    \/ Accepting(1) /\ Docs
    \/ \E p \in BagToSet(pending) : \E tokens \in Grants(now) : GetTokenResolves(p, tokens)
    \/ \E p \in BagToSet(pending) : GetTokenRejects(p)
    \/ \E p \in BagToSet(pending) : UpstreamResolves(p)
    \/ \E p \in BagToSet(pending) : UpstreamRejects(p)
    \/ \E p \in BagToSet(pending) : \E n \in 0..MaxMsgs : MailListResolves(p, n)
    \/ \E p \in BagToSet(pending) : MailGetResolves(p)

SpecClock == Init /\ [][NextClock]_vars

\* One request at a time, every shape of event body
NextEnrich ==
    \/ Accepting(1) /\ \E code \in Codes : Callback(code)
    \/ Accepting(1) /\ \E body \in CreateBodies : PostEvents(body)
    \/ Accepting(1) /\ \E body \in UpdateBodies : PutEvents(body)
    \/ \E p \in BagToSet(pending) : \E tokens \in Grants(now) : GetTokenResolves(p, tokens)
    \/ \E p \in BagToSet(pending) : GetTokenRejects(p)
    \/ \E p \in BagToSet(pending) : UpstreamResolves(p)
    \/ \E p \in BagToSet(pending) : UpstreamRejects(p)

SpecEnrich == Init /\ [][NextEnrich]_vars

\* inferType on its own, over every text up to MaxLen syllables
InitInfer ==
    /\ storedTokens = Null
    /\ credentials = NoCredentials
    /\ pending = EmptyBag
    /\ out = [ev |-> "none"]
    /\ now = 0
    /\ exchanged = FALSE
    /\ settled = "none"
    /\ text \in Texts
    /\ inferred = [k |-> "pending"]

NextInfer == InferCall

SpecInfer == InitInfer /\ [][NextInfer]_vars

-----------------------------------------------------------------------------
(* Properties *)

IsResponse(e, route, status) ==
    e.ev = "response" /\ e.route = route /\ e.status = status

\* C1: a protected route handled while the token slot is empty answers 401,
\* issues no upstream call and leaves no handler suspended for it, whatever
\* other requests are in flight.
C1_NoTokenNoUpstream ==
    [][ ~Truthy(storedTokens) =>
          /\ \A p \in BagToSet(pending') : p.route \notin ProtectedRoutes
          /\ (out' # out /\ out'.route \in ProtectedRoutes
                => out'.ev = "response" /\ out'.status = 401) ]_vars

C1_Witness ==
    /\ IsResponse(out, "GET /sheets/:spreadsheetId/:sheetId", 401)
    /\ pending # EmptyBag

\* C3: the authenticated flag of GET / and GET /status is false until a code
\* exchange has succeeded and true from then on, and right after a successful
\* exchange the slot holds exactly the bundle that exchange returned.
C3_TokenLifecycle ==
    /\ exchanged = Truthy(storedTokens)
    /\ (out.ev = "response" /\ out.route \in {"GET /", "GET /status"}
          => out.body.authenticated = exchanged)
    /\ (IsResponse(out, "GET /callback", 200) => storedTokens = out.body.granted)

C3_Witness ==
    /\ IsResponse(out, "GET /callback", 200)
    /\ out.body.replaced # Null
    /\ "refresh_token" \in DOMAIN out.body.replaced.v
    /\ "refresh_token" \notin DOMAIN storedTokens.v

\* C4: the token slot changes only in the step that completes a successful
\* code exchange; a /callback answered 400 or 500 leaves it as it was, and a
\* stored bundle is never cleared.
C4_SlotChangesOnlyOnExchange ==
    [][ /\ (storedTokens' # storedTokens =>
              /\ IsResponse(out', "GET /callback", 200)
              /\ storedTokens' = out'.body.granted
              /\ \E p \in BagToSet(pending) :
                    p.at = "getToken" /\ pending' = pending (-) SetToBag({p}))
        /\ (out' # out /\ out'.ev = "response" /\ out'.status # 200
              => storedTokens' = storedTokens)
        /\ (Truthy(storedTokens) => Truthy(storedTokens')) ]_vars

C4_Witness ==
    /\ IsResponse(out, "GET /callback", 500)
    /\ Truthy(storedTokens)

\* the claim's order: family, work, self-improvement, personal
TypeOrder == <<gajok, eopmu, jagigyebal, gaein>>

Triggers(type) ==
    UNION { {PATTERN_RULES[i].value[j] : j \in 1..Len(PATTERN_RULES[i].value)} :
            i \in {n \in 1..Len(PATTERN_RULES) : PATTERN_RULES[n].key = type} }

Contains(s, p) ==
    \E i \in 1..(Len(s) - Len(p) + 1) : SubSeq(s, i, i + Len(p) - 1) = p

\* the first type of TypeOrder with a trigger inside the text, Null without one
FirstType(t) ==
    IF t = Undefined \/ t = Str(<<>>) THEN Null
    ELSE LET hits == {i \in 1..Len(TypeOrder) :
                        \E q \in Triggers(TypeOrder[i]) : Contains(t.v, q)}
         IN  IF hits = {} THEN Null
             ELSE Str(TypeOrder[CHOOSE i \in hits : \A j \in hits : i <= j])

\* C5: inferType(text) is the first type in the order family, work,
\* self-improvement, personal that has a trigger inside text, and null when
\* none has one or text is empty or absent.
C5_InferFirstDeclaredType ==
    inferred # [k |-> "pending"] => inferred = FirstType(text)

C5_Witness ==
    /\ text = Str(<<"sa", "eop", "ga", "jok">>)
    /\ inferred = Str(gajok)

Lacks(body) ==
    \E f \in {"summary", "start", "end"} : body[f] = Undefined \/ body[f] = Str(<<>>)

\* C2 as stated: every POST /events whose body lacks summary, start or end
\* is answered 400.
C2_MissingFieldIs400 ==
    out.ev # "none" /\ out.route = "POST /events" /\ out.request # Undefined
        /\ Lacks(out.request)
    => out.ev = "response" /\ out.status = 400

\* C2: a POST /events whose body lacks summary, start or end is answered
\* 400 when a bundle is stored and 401 when the slot is empty; either way no
\* upstream call is issued and no handler stays suspended for it.
C2_MissingFieldIs400WhenAuthenticated ==
    [][ out' # out /\ out'.route = "POST /events" /\ out'.request # Undefined
            /\ Lacks(out'.request)
        => /\ out'.ev = "response"
           /\ out'.status = IF Truthy(storedTokens) THEN 400 ELSE 401
           /\ pending' = pending ]_vars

C2_Witness ==
    /\ IsResponse(out, "POST /events", 400)
    /\ out.request.summary = FamilyDinner
    /\ out.request.start = Undefined
    /\ out.request.end = T2
    /\ Truthy(storedTokens)

IsInsert(e) == e.ev = "call" /\ e.api = "calendar.events.insert"

IsUpdate(e) == e.ev = "call" /\ e.api = "calendar.events.update"

\* the claim's mapping
ColorMapping ==
    [t \in {Str(jagigyebal), Str(gaein), Str(eopmu), Str(gajok)} |->
        CASE t = Str(jagigyebal) -> Str(<<"2">>)
          [] t = Str(gaein) -> Str(<<"1">>)
          [] t = Str(eopmu) -> Str(<<"6">>)
          [] t = Str(gajok) -> Str(<<"5">>)]

\* the declared type when one is given, otherwise the type inferred from summary
EffectiveType(body) ==
    IF body.type \in {Undefined, Null, Str(<<>>)} THEN FirstType(body.summary)
    ELSE body.type

\* C6: a payload forwarded by POST /events has colorId exactly when the
\* effective type is one of the four mapped types, with that type's colour.
C6_ColorIffMapped ==
    IsInsert(out) =>
        LET type == EffectiveType(out.request)
        IN  IF type \in DOMAIN ColorMapping
            THEN "colorId" \in DOMAIN out.resource
                 /\ out.resource.colorId = ColorMapping[type]
            ELSE "colorId" \notin DOMAIN out.resource

\* {useDefault: true, overrides} with the caller's entries in order, minutes
\* unchanged and method defaulted to "popup"
IsOverrideBlock(block, given) ==
    /\ DOMAIN block = {"useDefault", "overrides"}
    /\ block.useDefault = TRUE
    /\ Len(block.overrides) = Len(given)
    /\ \A i \in 1..Len(given) :
          /\ block.overrides[i].minutes = given[i].minutes
          /\ block.overrides[i].method =
                IF given[i].method = Undefined THEN Str(<<"popup">>) ELSE given[i].method

\* C7: on create, absent or empty reminders give a payload without a
\* reminders field; a non-empty list gives {useDefault: true, overrides}.
C7_CreateReminders ==
    IsInsert(out) =>
        LET given == out.request.reminders
        IN  /\ (given = Undefined \/ given = Arr(<<>>)
                  => "reminders" \notin DOMAIN out.resource)
            /\ (given.k = "array" /\ given.v # <<>>
                  => "reminders" \in DOMAIN out.resource
                     /\ IsOverrideBlock(out.resource.reminders, given.v))

C7_Witness ==
    /\ IsInsert(out)
    /\ out.request.reminders.k = "array"
    /\ Len(out.request.reminders.v) = 2
    /\ out.request.reminders.v[1].method = Undefined
    /\ out.request.reminders.v[2].method = Str(<<"email">>)

\* C8: on update, absent reminders give no reminders field, null or an empty
\* list give {useDefault: true} alone, a non-empty list gives {useDefault:
\* true, overrides}; every reminders block emitted on either path has
\* useDefault true.
C8_UpdateReminders ==
    /\ IsUpdate(out) =>
          LET given == out.request.reminders
          IN  /\ (given = Undefined => "reminders" \notin DOMAIN out.resource)
              /\ (given = Null \/ given = Arr(<<>>)
                    => "reminders" \in DOMAIN out.resource
                       /\ out.resource.reminders = [useDefault |-> TRUE])
              /\ (given.k = "array" /\ given.v # <<>>
                    => "reminders" \in DOMAIN out.resource
                       /\ IsOverrideBlock(out.resource.reminders, given.v))
    /\ (IsInsert(out) \/ IsUpdate(out)) /\ "reminders" \in DOMAIN out.resource
          => out.resource.reminders.useDefault = TRUE

C8_Witness ==
    /\ IsUpdate(out)
    /\ out.request.reminders = Null
    /\ out.resource.reminders = [useDefault |-> TRUE]

\* C9: on update, an absent type gives no colorId key, a null type gives
\* colorId null, a mapped type gives its colour, any other type gives no
\* colorId key, and nothing is inferred from summary.
C9_UpdateColor ==
    IsUpdate(out) =>
        LET type == out.request.type
        IN  CASE type = Undefined -> "colorId" \notin DOMAIN out.resource
              [] type = Null -> "colorId" \in DOMAIN out.resource
                                /\ out.resource.colorId = Null
              [] type \in DOMAIN ColorMapping ->
                    "colorId" \in DOMAIN out.resource
                    /\ out.resource.colorId = ColorMapping[type]
              [] OTHER -> "colorId" \notin DOMAIN out.resource

Expired(bundle) == bundle.v.expiry_date < now

\* C10: while a bundle is stored, expired or not, GET / and GET /status
\* report authenticated, a protected route is never answered 401 but hands
\* the stored bundle to its upstream calls and answers 200 or 500, and the
\* slot is rewritten by nothing but a code exchange.
C10_ExpiryIsIgnored ==
    [][ Truthy(storedTokens) =>
          /\ (out' # out /\ out'.ev = "response" /\ out'.route \in {"GET /", "GET /status"}
                => out'.body.authenticated = TRUE)
          /\ (out' # out /\ out'.ev = "response" /\ out'.route \in ProtectedRoutes
                => out'.status \in {200, 500})
          /\ (out' # out /\ out'.ev = "call" /\ out'.route \in ProtectedRoutes
                => out'.auth = storedTokens /\ credentials' = storedTokens)
          /\ (storedTokens' # storedTokens => IsResponse(out', "GET /callback", 200)) ]_vars

C10_Witness ==
    /\ Truthy(storedTokens)
    /\ Expired(storedTokens)
    /\ IsResponse(out, "GET /docs/:documentId", 500)

\* C11: a step in which an awaited promise rejects (the code exchange or an
\* upstream call, on any route) ends exactly one suspended handler and emits
\* for that handler's route a 500 response carrying an error body; the handler
\* is no longer suspended, every other suspended handler stays as it was, and
\* the token slot and the client's credentials, on which later requests
\* depend, are left alone.
C11_FailureIsOne500 ==
    [][ settled' = "rejected" =>
          \E p \in BagToSet(pending) :
              /\ pending' = pending (-) SetToBag({p})
              /\ BagCardinality(pending') = BagCardinality(pending) - 1
              /\ IsResponse(out', p.route, 500)
              /\ "error" \in DOMAIN out'.body
              /\ out'.body.error = ErrorMessage(p.route)
              /\ storedTokens' = storedTokens
              /\ credentials' = credentials ]_vars

\* an upstream call of GET /mail has failed and been answered 500 while
\* another handler is still suspended and the server is still authenticated
C11_Witness ==
    /\ settled = "rejected"
    /\ IsResponse(out, "GET /mail", 500)
    /\ pending # EmptyBag
    /\ Truthy(storedTokens)
    /\ credentials = storedTokens

\* the handlers that a step suspends at an upstream call it has just issued
Issuing(before, after) ==
    { p \in BagToSet(after) : CopiesIn(p, after) > CopiesIn(p, before) }

\* C12: every upstream call issued for a request on a protected route (for
\* GET /mail the list call and each per-message get call) is made with the
\* bundle the token slot held when that request passed its check of the
\* slot, whatever /callback exchanges complete while the request is suspended.
C12_OneBundlePerRequest ==
    [][ \A p \in Issuing(pending, pending') :
            p.route \in ProtectedRoutes =>
                /\ out'.ev = "call"
                /\ out'.route = p.route
                /\ out'.auth = p.seen ]_vars

\* C13: in every state between two synchronous handler segments, a non-empty
\* token slot implies that the credentials of the shared OAuth client are
\* the bundle in the slot, for every interleaving of /callback exchanges and
\* requests on protected routes.
C13_ClientHoldsStoredBundle ==
    Truthy(storedTokens) => credentials = storedTokens

\* a /callback exchange is in flight while a GET /mail request, admitted
\* under a bundle that an earlier exchange has since replaced, is suspended
C13_Witness ==
    /\ Truthy(storedTokens)
    /\ credentials = storedTokens
    /\ \E p \in BagToSet(pending) : p.at = "getToken"
    /\ \E p \in BagToSet(pending) :
          p.route = "GET /mail" /\ Truthy(p.seen) /\ p.seen # storedTokens

=============================================================================
